---- MODULE Spec2Model ----
(***************************************************************************)
(* A model of pykeyemu: the key-injection surface of wininput.py           *)
(* (press_key, release_key, tap_key, type_string, with_modifiers) and the  *)
(* text helpers of utils.py (validate_text, _is_char_supported,            *)
(* split_text_by_support), over the static tables of constants.py.         *)
(*                                                                         *)
(* A Python str is a sequence of characters; a character is named by a     *)
(* TLA+ string: an ASCII character by itself ("a", "!"), any other by its  *)
(* code point ("U+212A"; the grave accent is "U+0060").  A Python value    *)
(* whose type or truth value the code tests is a record [ty, v].           *)
(***************************************************************************)
EXTENDS Integers, Sequences, FiniteSets, TLC

(***************************************************************************)
(* constants.py                                                            *)
(***************************************************************************)
KEYEVENTF_KEYUP == 2
VK_TAB == 9
VK_RETURN == 13
VK_SHIFT == 16
VK_CONTROL == 17
VK_SPACE == 32
VK_0 == 48
VK_1 == 49
VK_2 == 50
VK_3 == 51
VK_4 == 52
VK_5 == 53
VK_6 == 54
VK_7 == 55
VK_8 == 56
VK_9 == 57
VK_A == 65
VK_B == 66
VK_C == 67
VK_D == 68
VK_E == 69
VK_F == 70
VK_G == 71
VK_H == 72
VK_I == 73
VK_J == 74
VK_K == 75
VK_L == 76
VK_M == 77
VK_N == 78
VK_O == 79
VK_P == 80
VK_Q == 81
VK_R == 82
VK_S == 83
VK_T == 84
VK_U == 85
VK_V == 86
VK_W == 87
VK_X == 88
VK_Y == 89
VK_Z == 90
VK_OEM_1 == 186
VK_OEM_PLUS == 187
VK_OEM_COMMA == 188
VK_OEM_MINUS == 189
VK_OEM_PERIOD == 190
VK_OEM_2 == 191
VK_OEM_3 == 192
VK_OEM_4 == 219
VK_OEM_5 == 220
VK_OEM_6 == 221
VK_OEM_7 == 222

\* CHAR_TO_VK: the dict from a character to its virtual key code.
CHAR_TO_VK ==
    ("a" :> VK_A) @@ ("b" :> VK_B) @@ ("c" :> VK_C) @@ ("d" :> VK_D) @@
    ("e" :> VK_E) @@ ("f" :> VK_F) @@ ("g" :> VK_G) @@ ("h" :> VK_H) @@
    ("i" :> VK_I) @@ ("j" :> VK_J) @@ ("k" :> VK_K) @@ ("l" :> VK_L) @@
    ("m" :> VK_M) @@ ("n" :> VK_N) @@ ("o" :> VK_O) @@ ("p" :> VK_P) @@
    ("q" :> VK_Q) @@ ("r" :> VK_R) @@ ("s" :> VK_S) @@ ("t" :> VK_T) @@
    ("u" :> VK_U) @@ ("v" :> VK_V) @@ ("w" :> VK_W) @@ ("x" :> VK_X) @@
    ("y" :> VK_Y) @@ ("z" :> VK_Z) @@
    ("0" :> VK_0) @@ ("1" :> VK_1) @@ ("2" :> VK_2) @@ ("3" :> VK_3) @@
    ("4" :> VK_4) @@ ("5" :> VK_5) @@ ("6" :> VK_6) @@ ("7" :> VK_7) @@
    ("8" :> VK_8) @@ ("9" :> VK_9) @@
    (" " :> VK_SPACE) @@ ("\t" :> VK_TAB) @@ ("\n" :> VK_RETURN) @@
    ("\r" :> VK_RETURN) @@
    (";" :> VK_OEM_1) @@ ("=" :> VK_OEM_PLUS) @@ ("," :> VK_OEM_COMMA) @@
    ("-" :> VK_OEM_MINUS) @@ ("." :> VK_OEM_PERIOD) @@ ("/" :> VK_OEM_2) @@
    ("U+0060" :> VK_OEM_3) @@ ("[" :> VK_OEM_4) @@ ("\\" :> VK_OEM_5) @@
    ("]" :> VK_OEM_6) @@ ("'" :> VK_OEM_7)

\* SHIFT_CHARS: the set of characters that require the shift key.
SHIFT_CHARS ==
    { "A", "B", "C", "D", "E", "F", "G", "H", "I", "J", "K", "L", "M",
      "N", "O", "P", "Q", "R", "S", "T", "U", "V", "W", "X", "Y", "Z",
      "!", "@", "#", "$", "%", "^", "&", "*", "(", ")", "_", "+",
      "{", "}", "|", ":", "\"", "<", ">", "?", "~" }

\* SHIFT_CHAR_MAP: the dict from a shifted character to its base character.
SHIFT_CHAR_MAP ==
    ("!" :> "1") @@ ("@" :> "2") @@ ("#" :> "3") @@ ("$" :> "4") @@
    ("%" :> "5") @@ ("^" :> "6") @@ ("&" :> "7") @@ ("*" :> "8") @@
    ("(" :> "9") @@ (")" :> "0") @@ ("_" :> "-") @@ ("+" :> "=") @@
    ("{" :> "[") @@ ("}" :> "]") @@ ("|" :> "\\") @@ (":" :> ";") @@
    ("\"" :> "'") @@ ("<" :> ",") @@ (">" :> ".") @@ ("?" :> "/") @@
    ("~" :> "U+0060")

(***************************************************************************)
(* The str methods the code calls on a one-character string: str.lower()   *)
(* and str.isupper().  Beyond ASCII the model carries the characters that  *)
(* tell the cases apart: U+212A KELVIN SIGN (uppercase, lowers to "k"),    *)
(* U+00C9 (uppercase, lowers to U+00E9), U+0130 (uppercase, lowers to the  *)
(* two characters "i" U+0307) and U+4E16 (a CJK ideograph, caseless).      *)
(***************************************************************************)
LowerMap ==
    ("A" :> <<"a">>) @@ ("B" :> <<"b">>) @@ ("C" :> <<"c">>) @@
    ("D" :> <<"d">>) @@ ("E" :> <<"e">>) @@ ("F" :> <<"f">>) @@
    ("G" :> <<"g">>) @@ ("H" :> <<"h">>) @@ ("I" :> <<"i">>) @@
    ("J" :> <<"j">>) @@ ("K" :> <<"k">>) @@ ("L" :> <<"l">>) @@
    ("M" :> <<"m">>) @@ ("N" :> <<"n">>) @@ ("O" :> <<"o">>) @@
    ("P" :> <<"p">>) @@ ("Q" :> <<"q">>) @@ ("R" :> <<"r">>) @@
    ("S" :> <<"s">>) @@ ("T" :> <<"t">>) @@ ("U" :> <<"u">>) @@
    ("V" :> <<"v">>) @@ ("W" :> <<"w">>) @@ ("X" :> <<"x">>) @@
    ("Y" :> <<"y">>) @@ ("Z" :> <<"z">>) @@
    ("U+212A" :> <<"k">>) @@ ("U+00C9" :> <<"U+00E9">>) @@
    ("U+0130" :> <<"i", "U+0307">>)

\* char.isupper() for a one-character str.
IsUpper(char) == char[1] \in DOMAIN LowerMap

\* char.lower() for a one-character str (a str again, possibly longer).
Lower(char) == IF char[1] \in DOMAIN LowerMap THEN LowerMap[char[1]] ELSE char

\* Python values: an int, a str (a sequence of characters), None.
PyInt(n) == [ty |-> "int", v |-> n]
PyStr(s) == [ty |-> "str", v |-> s]
None == [ty |-> "NoneType", v |-> 0]

\* The truth value of `if x:`: None, 0 and "" are false.
Truthy(x) ==
    CASE x.ty = "NoneType" -> FALSE
      [] x.ty = "int" -> x.v # 0
      [] x.ty = "str" -> x.v # <<>>
      [] OTHER -> TRUE

\* char in CHAR_TO_VK
InCharToVk(char) == Len(char) = 1 /\ char[1] \in DOMAIN CHAR_TO_VK

\* CharToVkGet with codes beyond one byte (each code moved up by 256).
CharToVkGetWide(char) ==
    IF InCharToVk(char) THEN PyInt(CHAR_TO_VK[char[1]] + 256) ELSE None

\* CHAR_TO_VK.get(char)
CharToVkGet(char) ==
    IF InCharToVk(char) THEN PyInt(CHAR_TO_VK[char[1]]) ELSE None

\* char in SHIFT_CHARS
InShiftChars(char) == Len(char) = 1 /\ char[1] \in SHIFT_CHARS

\* SHIFT_CHAR_MAP.get(char)
ShiftCharMapGet(char) ==
    IF Len(char) = 1 /\ char[1] \in DOMAIN SHIFT_CHAR_MAP
    THEN PyStr(<<SHIFT_CHAR_MAP[char[1]]>>)
    ELSE None

(***************************************************************************)
(* utils.py: the support check and the text helpers built on it            *)
(***************************************************************************)
\* _is_char_supported(char)
IsCharSupported(char) ==
    IF Len(char) # 1 THEN FALSE
    ELSE IF InCharToVk(char) THEN TRUE
    ELSE IF IsUpper(char) /\ InCharToVk(Lower(char)) THEN TRUE
    ELSE IF InShiftChars(char)
            /\ LET base_char == ShiftCharMapGet(char)
               IN Truthy(base_char) /\ InCharToVk(base_char.v)
         THEN TRUE
    ELSE FALSE

(***************************************************************************)
(* wininput.py: events, the injector, the resolver                         *)
(***************************************************************************)
\* _create_keyboard_input(vk_code, flags): the fields the code sets to
\* something other than 0.
CreateKeyboardInput(vk_code, flags) == [wVk |-> vk_code, dwFlags |-> flags]

\* ValidCode with 256 taken for a key code.
ValidCodeUpTo256(x) == x.ty = "int" /\ x.v >= 0 /\ x.v <= 256

\* The range check of press_key, release_key, tap_key, with_modifiers and
\* is_key_pressed: an int in [0, 255].
ValidCode(x) == x.ty = "int" /\ x.v >= 0 /\ x.v <= 255

\* reversed(seq)
Reversed(seq) == [i \in 1..Len(seq) |-> seq[Len(seq) + 1 - i]]

\* tap_key(vk_code, modifiers) raises ValueError.
TapKeyRaises(vk_code, modifiers) ==
    \/ ~ValidCode(vk_code)
    \/ \E i \in 1..Len(modifiers) : ~ValidCode(modifiers[i])

\* TapKeyInputs without the releases of the modifiers.
TapKeyInputsNoModRelease(vk_code, modifiers) ==
    [i \in 1..Len(modifiers) |-> CreateKeyboardInput(modifiers[i].v, 0)]
    \o <<CreateKeyboardInput(vk_code.v, 0),
         CreateKeyboardInput(vk_code.v, KEYEVENTF_KEYUP)>>

\* TapKeyInputs with the flags of the main key's two events exchanged.
TapKeyInputsUpFirst(vk_code, modifiers) ==
    [i \in 1..Len(modifiers) |-> CreateKeyboardInput(modifiers[i].v, 0)]
    \o <<CreateKeyboardInput(vk_code.v, KEYEVENTF_KEYUP),
         CreateKeyboardInput(vk_code.v, 0)>>
    \o [i \in 1..Len(modifiers) |->
            CreateKeyboardInput(Reversed(modifiers)[i].v, KEYEVENTF_KEYUP)]

\* TapKeyInputs with the modifiers released in list order.
TapKeyInputsForward(vk_code, modifiers) ==
    [i \in 1..Len(modifiers) |-> CreateKeyboardInput(modifiers[i].v, 0)]
    \o <<CreateKeyboardInput(vk_code.v, 0),
         CreateKeyboardInput(vk_code.v, KEYEVENTF_KEYUP)>>
    \o [i \in 1..Len(modifiers) |->
            CreateKeyboardInput(modifiers[i].v, KEYEVENTF_KEYUP)]

\* The inputs list tap_key hands to _send_input.
TapKeyInputs(vk_code, modifiers) ==
    [i \in 1..Len(modifiers) |-> CreateKeyboardInput(modifiers[i].v, 0)]
    \o <<CreateKeyboardInput(vk_code.v, 0),
         CreateKeyboardInput(vk_code.v, KEYEVENTF_KEYUP)>>
    \o [i \in 1..Len(modifiers) |->
            CreateKeyboardInput(Reversed(modifiers)[i].v, KEYEVENTF_KEYUP)]

\* TypeCharacter with an uppercase letter tapped without Shift.
TypeCharacterNoShift(char) ==
    IF Len(char) # 1 THEN [kind |-> "raise", vk |-> None, mods |-> <<>>]
    ELSE
      LET upper_vk == CharToVkGet(Lower(char))
          base_char == ShiftCharMapGet(char)
          base_vk == IF Truthy(base_char) THEN CharToVkGet(base_char.v) ELSE None
          vk_code == CharToVkGet(char)
      IN IF InShiftChars(char) /\ IsUpper(char) /\ Truthy(upper_vk)
         THEN [kind |-> "tap", vk |-> upper_vk, mods |-> <<>>]
         ELSE IF InShiftChars(char) /\ ~IsUpper(char) /\ Truthy(base_vk)
         THEN [kind |-> "tap", vk |-> base_vk, mods |-> <<PyInt(VK_SHIFT)>>]
         ELSE IF Truthy(vk_code)
         THEN [kind |-> "tap", vk |-> vk_code, mods |-> <<>>]
         ELSE [kind |-> "unsupported", vk |-> None, mods |-> <<>>]

\* _type_character(char) up to its call of tap_key: what it decides to do.
\*   [kind |-> "raise"]                  ValueError, not one character
\*   [kind |-> "tap", vk, mods]          return tap_key(vk, mods)
\*   [kind |-> "unsupported"]            print the warning, return False
TypeCharacter(char) ==
    IF Len(char) # 1 THEN [kind |-> "raise", vk |-> None, mods |-> <<>>]
    ELSE
      LET upper_vk == CharToVkGet(Lower(char))
          base_char == ShiftCharMapGet(char)
          base_vk == IF Truthy(base_char) THEN CharToVkGet(base_char.v) ELSE None
          vk_code == CharToVkGet(char)
      IN IF InShiftChars(char) /\ IsUpper(char) /\ Truthy(upper_vk)
         THEN [kind |-> "tap", vk |-> upper_vk, mods |-> <<PyInt(VK_SHIFT)>>]
         ELSE IF InShiftChars(char) /\ ~IsUpper(char) /\ Truthy(base_vk)
         THEN [kind |-> "tap", vk |-> base_vk, mods |-> <<PyInt(VK_SHIFT)>>]
         ELSE IF Truthy(vk_code)
         THEN [kind |-> "tap", vk |-> vk_code, mods |-> <<>>]
         ELSE [kind |-> "unsupported", vk |-> None, mods |-> <<>>]

\* _send_input(inputs) given the count SendInput returns: the bool it returns.
\* An empty list is answered True without calling SendInput.
SendInputReturn(inputs, result) ==
    IF inputs = <<>> THEN TRUE ELSE result = Len(inputs)

(***************************************************************************)
(* utils.py: validate_text and split_text_by_support                       *)
(***************************************************************************)
\* char in unsupported, for a list
InList(x, list) == \E i \in 1..Len(list) : list[i] = x

\* ValidateTextStep that lists the first unsupported character only.
ValidateTextStepFirstOnly(unsupported, char) ==
    IF ~IsCharSupported(char) /\ unsupported = <<>>
    THEN Append(unsupported, char)
    ELSE unsupported

\* ValidateTextStep without the test for a character already listed.
ValidateTextStepNoDedupe(unsupported, char) ==
    IF ~IsCharSupported(char) THEN Append(unsupported, char) ELSE unsupported

\* The body of validate_text's for loop: the list after looking at char.
ValidateTextStep(unsupported, char) ==
    IF ~IsCharSupported(char) /\ ~InList(char, unsupported)
    THEN Append(unsupported, char)
    ELSE unsupported

\* The for loop of validate_text from index i with the list built so far.
RECURSIVE ValidateTextLoop(_, _, _)
ValidateTextLoop(text, i, unsupported) ==
    IF i > Len(text) THEN unsupported
    ELSE ValidateTextLoop(text, i + 1,
                          ValidateTextStep(unsupported, <<text[i]>>))

\* validate_text(text) for a str: the tuple (is_valid, unsupported).
ValidateText(text) ==
    LET unsupported == ValidateTextLoop(text, 1, <<>>)
    IN <<Len(unsupported) = 0, unsupported>>

\* SplitStep that starts the new chunk empty, losing the character that
\* changed the flag.
SplitStepDropsChar(st, char) ==
    LET char_supported == IsCharSupported(char)
    IN IF char_supported = st.current_supported
       THEN [st EXCEPT !.current_chunk = @ \o char]
       ELSE [chunks |-> IF st.current_chunk # <<>>
                        THEN Append(st.chunks,
                                    <<st.current_chunk, st.current_supported>>)
                        ELSE st.chunks,
             current_chunk |-> <<>>,
             current_supported |-> char_supported]

\* SplitStep that closes a chunk on every unsupported character, whether or
\* not the flag changed.
SplitStepSplitsRuns(st, char) ==
    LET char_supported == IsCharSupported(char)
    IN IF char_supported = st.current_supported /\ char_supported
       THEN [st EXCEPT !.current_chunk = @ \o char]
       ELSE [chunks |-> IF st.current_chunk # <<>>
                        THEN Append(st.chunks,
                                    <<st.current_chunk, st.current_supported>>)
                        ELSE st.chunks,
             current_chunk |-> char,
             current_supported |-> char_supported]

\* SplitStep that flags the chunk it closes with the new character's status.
SplitStepFlagsNew(st, char) ==
    LET char_supported == IsCharSupported(char)
    IN IF char_supported = st.current_supported
       THEN [st EXCEPT !.current_chunk = @ \o char]
       ELSE [chunks |-> IF st.current_chunk # <<>>
                        THEN Append(st.chunks, <<st.current_chunk, char_supported>>)
                        ELSE st.chunks,
             current_chunk |-> char,
             current_supported |-> char_supported]

\* The body of split_text_by_support's for loop on the locals
\* st = [chunks, current_chunk, current_supported].
SplitStep(st, char) ==
    LET char_supported == IsCharSupported(char)
    IN IF char_supported = st.current_supported
       THEN [st EXCEPT !.current_chunk = @ \o char]
       ELSE [chunks |-> IF st.current_chunk # <<>>
                        THEN Append(st.chunks,
                                    <<st.current_chunk, st.current_supported>>)
                        ELSE st.chunks,
             current_chunk |-> char,
             current_supported |-> char_supported]

\* After the loop: the last chunk is appended when it is not empty.
SplitFlush(st) ==
    IF st.current_chunk # <<>>
    THEN Append(st.chunks, <<st.current_chunk, st.current_supported>>)
    ELSE st.chunks

\* The for loop of split_text_by_support from index i.
RECURSIVE SplitLoop(_, _, _)
SplitLoop(text, i, st) ==
    IF i > Len(text) THEN st
    ELSE SplitLoop(text, i + 1, SplitStep(st, <<text[i]>>))

\* split_text_by_support(text) for a str: the list of (chunk, is_supported).
SplitTextBySupport(text) ==
    IF text = <<>> THEN <<>>
    ELSE SplitFlush(SplitLoop(text, 1,
             [chunks |-> <<>>, current_chunk |-> <<>>,
              current_supported |-> IsCharSupported(<<text[1]>>)]))

(***************************************************************************)
(* Numbers.  The float values of utils.py are modelled by the rationals    *)
(* they stand for, as <<numerator, denominator>> in lowest terms with a    *)
(* positive denominator, so that equal numbers are equal values.           *)
(***************************************************************************)
Abs(n) == IF n < 0 THEN -n ELSE n

RECURSIVE GCD(_, _)
GCD(a, b) == IF b = 0 THEN a ELSE GCD(b, a % b)

\* the rational n / d, d # 0
Rat(n, d) ==
    LET g == GCD(Abs(n), Abs(d))
        sign == IF d < 0 THEN -1 ELSE 1
    IN <<(sign * n) \div g, (sign * d) \div g>>

Zero == Rat(0, 1)
One == Rat(1, 1)
RInt(n) == Rat(n, 1)

RAdd(x, y) == Rat(x[1] * y[2] + y[1] * x[2], x[2] * y[2])
RNeg(x) == Rat(-x[1], x[2])
RSub(x, y) == RAdd(x, RNeg(y))
RMul(x, y) == Rat(x[1] * y[1], x[2] * y[2])
\* x / y, y # 0
RDiv(x, y) == Rat(x[1] * y[2], x[2] * y[1])
RLt(x, y) == x[1] * y[2] < y[1] * x[2]
RLe(x, y) == x[1] * y[2] <= y[1] * x[2]
\* max(x, y) of Python: the first of the largest
RMax(x, y) == IF RLt(x, y) THEN y ELSE x

(***************************************************************************)
(* utils.py: humanize_delay, calculate_typing_time, create_typing_profile, *)
(* apply_typing_profile                                                    *)
(***************************************************************************)
\* HumanizeDelayRaises without the check of variance.
HumanizeDelayRaisesBaseOnly(base_delay, variance) == RLt(base_delay, Zero)

\* The argument checks of humanize_delay.
HumanizeDelayRaises(base_delay, variance) ==
    RLt(base_delay, Zero) \/ RLt(variance, Zero)

\* HumanizeDelay without the clamp at 0.
HumanizeDelayNoClamp(base_delay, variation) == RAdd(base_delay, variation)

\* HumanizeDelay with the base delay left out of the sum.
HumanizeDelayVariationOnly(base_delay, variation) == RMax(Zero, variation)

\* What humanize_delay returns when random.uniform drew `variation`.
HumanizeDelay(base_delay, variation) == RMax(Zero, RAdd(base_delay, variation))

\* CalculateTypingTime with a delay counted after the last character too.
CalculateTypingTimeEveryChar(typeable_chars, delay) ==
    IF typeable_chars <= 1 THEN 0 ELSE typeable_chars * delay

\* The estimate of calculate_typing_time for a count of typeable characters.
CalculateTypingTime(typeable_chars, delay) ==
    IF typeable_chars <= 1 THEN 0 ELSE (typeable_chars - 1) * delay

\* sum(1 for char in text if _is_char_supported(char))
TypeableChars(text) ==
    Cardinality({i \in 1..Len(text) : IsCharSupported(<<text[i]>>)})

\* The argument checks of calculate_typing_time.
CalculateTypingTimeRaises(text, delay) == text.ty # "str" \/ delay < 0

\* The argument check of create_typing_profile.
CreateTypingProfileRaises(wpm) == wpm <= 0

\* VarianceRatio with the tier boundaries given to the slower tier.
VarianceRatioStrict(wpm) ==
    IF wpm > 80 THEN Rat(2, 10)
    ELSE IF wpm > 40 THEN Rat(3, 10)
    ELSE Rat(4, 10)

\* variance_ratio: 0.2 for a fast typist, 0.3 for an average one, 0.4 for a
\* slow one.
VarianceRatio(wpm) ==
    IF wpm >= 80 THEN Rat(2, 10)
    ELSE IF wpm >= 40 THEN Rat(3, 10)
    ELSE Rat(4, 10)

\* The dict create_typing_profile(wpm) returns, wpm > 0.
CreateTypingProfile(wpm) ==
    LET chars_per_minute == RInt(wpm * 5)
        chars_per_second == RDiv(chars_per_minute, RInt(60))
        base_delay == RDiv(One, chars_per_second)
        variance == RMul(base_delay, VarianceRatio(wpm))
    IN [ty |-> "dict",
        v |-> [wpm |-> RInt(wpm),
               base_delay |-> base_delay,
               variance |-> variance,
               pause_chance |-> Rat(5, 100),
               pause_duration |-> RMul(base_delay, RInt(3))]]

\* required_keys of apply_typing_profile
RequiredKeys == {"base_delay", "variance", "pause_chance", "pause_duration"}

\* The argument checks of apply_typing_profile.
ApplyTypingProfileRaises(text, profile) ==
    \/ text.ty # "str"
    \/ profile.ty # "dict"
    \/ ~(RequiredKeys \subseteq DOMAIN profile.v)

\* ApplySkips with no character skipped.
ApplySkipsNone(char) == FALSE

\* The characters the loop of apply_typing_profile passes over.
ApplySkips(char) == ~IsCharSupported(char)

(***************************************************************************)
(* utils.py: normalize_line_endings                                        *)
(***************************************************************************)
\* the characters '\r' and '\n'
CR == "U+000D"
LF == "U+000A"

\* text.replace(old, new) for a non-empty old: the occurrences of old, found
\* from the left and not overlapping, replaced by new.
RECURSIVE StrReplace(_, _, _)
StrReplace(text, old, new) ==
    IF Len(text) < Len(old) THEN text
    ELSE IF SubSeq(text, 1, Len(old)) = old
    THEN new \o StrReplace(SubSeq(text, Len(old) + 1, Len(text)), old, new)
    ELSE <<Head(text)>> \o StrReplace(Tail(text), old, new)

\* The argument checks of normalize_line_endings.
NormalizeLineEndingsRaises(text, target) ==
    \/ text.ty # "str"
    \/ target \notin {<<LF>>, <<CR, LF>>, <<CR>>}

\* NormalizeLineEndings without the replacement of '\r\n' by '\n'.
NormalizeLineEndingsNoPairs(text, target) ==
    LET unix == StrReplace(text, <<CR>>, <<LF>>)
    IN IF target # <<LF>> THEN StrReplace(unix, <<LF>>, target) ELSE unix

\* What normalize_line_endings returns for a str and a valid target.
NormalizeLineEndings(text, target) ==
    LET windows == StrReplace(text, <<CR, LF>>, <<LF>>)
        unix == StrReplace(windows, <<CR>>, <<LF>>)
    IN IF target # <<LF>> THEN StrReplace(unix, <<LF>>, target) ELSE unix

\* The outcomes of a call.
NoOutcome == [kind |-> "none", val |-> None]
Return(val) == [kind |-> "return", val |-> val]
Raise(exc) == [kind |-> "raise", val |-> exc]

(***************************************************************************)
(* The inputs the model draws                                              *)
(***************************************************************************)
MaxLen == 3
MaxMods == 2
MaxBodyOps == 1

\* Characters of every class the tables and the str methods tell apart.
Alphabet == {"a", "A", "B", "!", "U+4E16", "U+00C9", "U+212A"}

Strings(n) == UNION {[1..k -> Alphabet] : k \in 0..n}

\* text arguments: a str, or the int the tests pass to be rejected.
TextArgs == {PyStr(t) : t \in Strings(MaxLen)} \cup {PyInt(123)}

\* delay arguments, in units of the smallest delay.
DelayArgs == {-1, 0, 1}

\* key code arguments: in range, at and beyond both ends, and a str.
KeyArgs == {PyInt(-1), PyInt(0), PyInt(VK_SHIFT), PyInt(VK_A), PyInt(255),
            PyInt(256), PyStr(<<"A">>)}

ModArgs == {PyInt(VK_SHIFT), PyInt(VK_CONTROL), PyInt(-1), PyInt(256)}

ModLists == UNION {[1..k -> ModArgs] : k \in 0..MaxMods}

\* the modifiers argument of with_modifiers: a list, or the str the tests pass.
ModListArgs == {[ty |-> "list", v |-> m] : m \in ModLists}
               \cup {PyStr(<<"i", "n", "v", "a", "l", "i", "d">>)}

\* random.random() draws a float in [0, 1): the multiples of 1/RandomGrain.
RandomGrain == 4
RandomDraws == {Rat(k, RandomGrain) : k \in 0..(RandomGrain - 1)}

\* random.uniform(a, b) is a + (b - a) * random.random(); rounding may make
\* it reach b.
UniformDraws(a, b) ==
    {RAdd(a, RMul(RSub(b, a), r)) : r \in RandomDraws \cup {One}}

\* The outcomes of humanize_delay(base_delay, variance): the exception, or
\* one value per draw.
HumanizeDelayOutcomes(base_delay, variance) ==
    IF HumanizeDelayRaises(base_delay, variance)
    THEN {Raise("ValueError")}
    ELSE {Return(HumanizeDelay(base_delay, variation)) :
             variation \in UniformDraws(RNeg(variance), variance)}

\* The outcomes of the body of the loop of apply_typing_profile for one
\* supported character: the pause, or a humanized delay.
ApplyDelayOutcomes(profile) ==
    UNION {IF RLt(r, profile.pause_chance)
           THEN {Return(profile.pause_duration)}
           ELSE HumanizeDelayOutcomes(profile.base_delay, profile.variance) :
              r \in RandomDraws}

\* The outcomes of the loop of apply_typing_profile from character i on,
\* `delays` being the list so far.
RECURSIVE ApplyLoop(_, _, _, _)
ApplyLoop(text, i, profile, delays) ==
    IF i > Len(text) THEN {Return(delays)}
    ELSE IF ApplySkips(<<text[i]>>) THEN ApplyLoop(text, i + 1, profile, delays)
    ELSE UNION {IF o.kind = "raise" THEN {o}
                ELSE ApplyLoop(text, i + 1, profile, Append(delays, o.val)) :
                   o \in ApplyDelayOutcomes(profile)}

\* base_delay and variance arguments of humanize_delay, in seconds.
BaseDelayArgs == {Rat(-1, 10), Zero, Rat(1, 10)}
VarianceArgs == {Rat(-1, 100), Zero, Rat(1, 20), Rat(3, 10)}

\* wpm arguments: not positive, and around the tiers of the variance ratio.
WpmArgs == {-10, 0, 1, 20, 39, 40, 41, 60, 79, 80, 81, 120}

\* text arguments of apply_typing_profile.
MaxProfileLen == 2
ProfileAlphabet == {"a", "A", "U+4E16"}
ProfileTextArgs ==
    {PyStr(t) : t \in UNION {[1..k -> ProfileAlphabet] : k \in 0..MaxProfileLen}}
    \cup {PyInt(123)}

Profile(base_delay, variance, pause_chance, pause_duration) ==
    [ty |-> "dict",
     v |-> [base_delay |-> base_delay, variance |-> variance,
            pause_chance |-> pause_chance, pause_duration |-> pause_duration]]

\* profile arguments: one create_typing_profile made; hand-made ones with
\* variance above the base delay, with a pause of no length, with neither
\* variance nor pauses, with a negative variance; a dict without
\* 'pause_duration'; and the str the tests pass.
ProfileArgs ==
    {CreateTypingProfile(60),
     Profile(Rat(1, 10), Rat(3, 10), Rat(5, 100), Rat(3, 10)),
     Profile(Rat(1, 10), Rat(1, 20), Rat(1, 2), Zero),
     Profile(Rat(1, 10), Zero, Zero, Rat(1, 5)),
     Profile(Rat(1, 10), Rat(-1, 100), Rat(1, 2), Rat(1, 5)),
     [ty |-> "dict",
      v |-> [base_delay |-> Rat(1, 10), variance |-> Zero,
             pause_chance |-> Zero]],
     PyStr(<<"i", "n", "v", "a", "l", "i", "d">>)}

\* text arguments of normalize_line_endings: a str of letters and line
\* ending characters, or the int the tests pass; target arguments: the three
\* line endings, and two strs that are none of them.
LineAlphabet == {"a", CR, LF}
LineTextArgs ==
    {PyStr(t) : t \in UNION {[1..k -> LineAlphabet] : k \in 0..MaxLen}}
    \cup {PyInt(123)}
TargetArgs == {<<LF>>, <<CR, LF>>, <<CR>>, <<>>, <<LF, CR>>}

(***************************************************************************)
(* State                                                                   *)
(***************************************************************************)
VARIABLES
    pc,       \* where the caller is: "idle", inside a call, or "done"
    call,     \* the call in progress or finished, with its arguments
    trace,    \* what the call has done so far, in order: SendInput calls
              \* (with their inputs), printed warnings, sleeps
    ret,      \* how the call ended: a return value or a raised exception
    idx,      \* the position of the running for loop (1-based)
    success,  \* type_string's local
    pending,  \* with_modifiers: the exception the with body raised, if any
    bodyOps,  \* with_modifiers: library calls the with body has made
    stub      \* which SendInput the calls reach: "os" (user32's) or "mock"
              \* (the one the tests patch in, which returns 1)

vars == <<pc, call, trace, ret, idx, success, pending, bodyOps, stub>>

\* trace entries
Send(inputs, ok) ==
    [kind |-> "send", inputs |-> inputs, ok |-> ok, char |-> <<>>, d |-> 0]
Warn(char) ==
    [kind |-> "warn", inputs |-> <<>>, ok |-> FALSE, char |-> char, d |-> 0]
Sleep(d) ==
    [kind |-> "sleep", inputs |-> <<>>, ok |-> FALSE, char |-> <<>>, d |-> d]

\* SendInputTrace with a failed call made a second time.
SendInputTraceRetry(inputs, result) ==
    IF inputs = <<>> THEN <<>>
    ELSE IF SendInputReturn(inputs, result)
    THEN <<Send(inputs, TRUE)>>
    ELSE <<Send(inputs, FALSE), Send(inputs, FALSE)>>

\* _send_input(inputs) when SendInput returns `result`: what it adds to the
\* trace.
SendInputTrace(inputs, result) ==
    IF inputs = <<>> THEN <<>>
    ELSE <<Send(inputs, SendInputReturn(inputs, result))>>

\* The value the tests' mock of SendInput returns
\* (mock_send_input.return_value = 1).
MockReturnValue == 1

\* what SendInput may return for `inputs`: the number of events inserted,
\* or the mock's fixed value.
SendInputResults(inputs) ==
    IF stub = "mock" THEN {MockReturnValue} ELSE 0..Len(inputs)

Init ==
    /\ pc = "idle"
    /\ call = [op |-> "none"]
    /\ trace = <<>>
    /\ ret = NoOutcome
    /\ idx = 0
    /\ success = TRUE
    /\ pending = "none"
    /\ bodyOps = 0
    /\ stub \in {"os", "mock"}

\* The call ends: nothing else changes.
Ends(outcome) ==
    /\ pc' = "done"
    /\ ret' = outcome

(***************************************************************************)
(* press_key, release_key, tap_key                                         *)
(***************************************************************************)
PressKey(vk_code) ==
    /\ pc = "idle"
    /\ call' = [op |-> "press_key", vk |-> vk_code]
    /\ IF ~ValidCode(vk_code)
       THEN Ends(Raise("ValueError")) /\ UNCHANGED trace
       ELSE LET inputs == <<CreateKeyboardInput(vk_code.v, 0)>>
            IN \E result \in SendInputResults(inputs) :
                 /\ trace' = trace \o SendInputTrace(inputs, result)
                 /\ Ends(Return(SendInputReturn(inputs, result)))
    /\ UNCHANGED <<idx, success, pending, bodyOps, stub>>

ReleaseKey(vk_code) ==
    /\ pc = "idle"
    /\ call' = [op |-> "release_key", vk |-> vk_code]
    /\ IF ~ValidCode(vk_code)
       THEN Ends(Raise("ValueError")) /\ UNCHANGED trace
       ELSE LET inputs == <<CreateKeyboardInput(vk_code.v, KEYEVENTF_KEYUP)>>
            IN \E result \in SendInputResults(inputs) :
                 /\ trace' = trace \o SendInputTrace(inputs, result)
                 /\ Ends(Return(SendInputReturn(inputs, result)))
    /\ UNCHANGED <<idx, success, pending, bodyOps, stub>>

TapKey(vk_code, modifiers) ==
    /\ pc = "idle"
    /\ call' = [op |-> "tap_key", vk |-> vk_code, mods |-> modifiers]
    /\ IF TapKeyRaises(vk_code, modifiers)
       THEN Ends(Raise("ValueError")) /\ UNCHANGED trace
       ELSE LET inputs == TapKeyInputs(vk_code, modifiers)
            IN \E result \in SendInputResults(inputs) :
                 /\ trace' = trace \o SendInputTrace(inputs, result)
                 /\ Ends(Return(SendInputReturn(inputs, result)))
    /\ UNCHANGED <<idx, success, pending, bodyOps, stub>>

(***************************************************************************)
(* type_string                                                             *)
(***************************************************************************)
\* The call and its argument checks.
TypeString(text, delay) ==
    /\ pc = "idle"
    /\ call' = [op |-> "type_string", text |-> text, delay |-> delay]
    /\ IF text.ty # "str" \/ delay < 0
       THEN Ends(Raise("ValueError")) /\ UNCHANGED <<idx, success>>
       ELSE /\ pc' = "type_loop"
            /\ idx' = 1
            /\ success' = TRUE
            /\ UNCHANGED ret
    /\ UNCHANGED <<trace, pending, bodyOps, stub>>

\* SleepTrace with the sleep made whatever the delay is.
SleepTraceAlways(delay) == <<Sleep(delay)>>

\* time.sleep(delay) after a character, when delay > 0.
SleepTrace(delay) == IF delay > 0 THEN <<Sleep(delay)>> ELSE <<>>

\* TypeStringSuccess with the flag overwritten by each character's result.
TypeStringSuccessLast(success_so_far, char_success) == char_success

\* The update of success after a character: cleared by a failure, never set
\* again.
TypeStringSuccess(success_so_far, char_success) ==
    IF ~char_success THEN FALSE ELSE success_so_far

\* One iteration of the for loop: _type_character(char), the update of
\* success, the sleep.
TypeStringIter ==
    /\ pc = "type_loop"
    /\ idx <= Len(call.text.v)
    /\ LET char == <<call.text.v[idx]>>
           plan == TypeCharacter(char)
       IN CASE plan.kind = "tap" /\ ~TapKeyRaises(plan.vk, plan.mods) ->
                 LET inputs == TapKeyInputs(plan.vk, plan.mods)
                 IN \E result \in SendInputResults(inputs) :
                      /\ trace' = trace \o SendInputTrace(inputs, result)
                                        \o SleepTrace(call.delay)
                      /\ success' = TypeStringSuccess(success,
                                        SendInputReturn(inputs, result))
                      /\ idx' = idx + 1
                      /\ UNCHANGED <<pc, ret>>
            [] plan.kind = "unsupported" ->
                 /\ trace' = trace \o <<Warn(char)>> \o SleepTrace(call.delay)
                 /\ success' = TypeStringSuccess(success, FALSE)
                 /\ idx' = idx + 1
                 /\ UNCHANGED <<pc, ret>>
            [] OTHER ->
                 /\ Ends(Raise("ValueError"))
                 /\ UNCHANGED <<trace, success, idx>>
    /\ UNCHANGED <<call, pending, bodyOps, stub>>

\* The loop is over: return success.
TypeStringReturn ==
    /\ pc = "type_loop"
    /\ idx > Len(call.text.v)
    /\ Ends(Return(success))
    /\ UNCHANGED <<call, trace, idx, success, pending, bodyOps, stub>>

(***************************************************************************)
(* with_modifiers: the context manager and the with block it guards        *)
(***************************************************************************)
\* Entering the with statement: the generator starts and checks its argument.
WithModifiers(modifiers) ==
    /\ pc = "idle"
    /\ call' = [op |-> "with_modifiers", mods |-> modifiers]
    /\ IF modifiers.ty # "list"
       THEN Ends(Raise("ValueError")) /\ UNCHANGED idx
       ELSE pc' = "wm_press" /\ idx' = 1 /\ UNCHANGED ret
    /\ UNCHANGED <<trace, success, pending, bodyOps, stub>>

\* WMPress with a failed press_key ending the call by an exception.
WMPressRaisesOnFailure ==
    /\ pc = "wm_press"
    /\ idx <= Len(call.mods.v)
    /\ LET mod == call.mods.v[idx]
       IN IF ~ValidCode(mod)
          THEN Ends(Raise("ValueError")) /\ UNCHANGED <<trace, idx>>
          ELSE LET inputs == <<CreateKeyboardInput(mod.v, 0)>>
               IN \E result \in SendInputResults(inputs) :
                    /\ trace' = trace \o SendInputTrace(inputs, result)
                    /\ IF SendInputReturn(inputs, result)
                       THEN idx' = idx + 1 /\ UNCHANGED <<pc, ret>>
                       ELSE Ends(Raise("OSError")) /\ UNCHANGED idx
    /\ UNCHANGED <<call, success, pending, bodyOps, stub>>

\* One iteration of the press loop: the range check of mod, then
\* press_key(mod), whose result is dropped.
WMPress ==
    /\ pc = "wm_press"
    /\ idx <= Len(call.mods.v)
    /\ LET mod == call.mods.v[idx]
       IN IF ~ValidCode(mod)
          THEN Ends(Raise("ValueError")) /\ UNCHANGED <<trace, idx>>
          ELSE LET inputs == <<CreateKeyboardInput(mod.v, 0)>>
               IN \E result \in SendInputResults(inputs) :
                    /\ trace' = trace \o SendInputTrace(inputs, result)
                    /\ idx' = idx + 1
                    /\ UNCHANGED <<pc, ret>>
    /\ UNCHANGED <<call, success, pending, bodyOps, stub>>

\* The press loop is over: yield, the with body starts.
WMYield ==
    /\ pc = "wm_press"
    /\ idx > Len(call.mods.v)
    /\ pc' = "wm_body"
    /\ UNCHANGED <<call, trace, ret, idx, success, pending, bodyOps, stub>>

\* The with body calls tap_key(vk_code, modifiers); a ValueError it raises
\* leaves the body.
WMBodyTap(vk_code, modifiers) ==
    /\ pc = "wm_body"
    /\ bodyOps < MaxBodyOps
    /\ bodyOps' = bodyOps + 1
    /\ IF TapKeyRaises(vk_code, modifiers)
       THEN /\ pending' = "ValueError"
            /\ pc' = "wm_release"
            /\ idx' = 1
            /\ UNCHANGED trace
       ELSE LET inputs == TapKeyInputs(vk_code, modifiers)
            IN \E result \in SendInputResults(inputs) :
                 /\ trace' = trace \o SendInputTrace(inputs, result)
                 /\ UNCHANGED <<pc, idx, pending>>
    /\ UNCHANGED <<call, ret, success, stub>>

\* The with body raises an exception of its own.
WMBodyRaise ==
    /\ pc = "wm_body"
    /\ pending' = "BodyError"
    /\ pc' = "wm_release"
    /\ idx' = 1
    /\ UNCHANGED <<call, trace, ret, success, bodyOps, stub>>

\* The with body completes.
WMBodyEnd ==
    /\ pc = "wm_body"
    /\ pc' = "wm_release"
    /\ idx' = 1
    /\ UNCHANGED <<call, trace, ret, success, pending, bodyOps, stub>>

\* WMReleaseOrder without the reversal.
WMReleaseOrderForward(modifiers) == modifiers

\* The order the finally clause releases in: reversed(modifiers).
WMReleaseOrder(modifiers) == Reversed(modifiers)

\* One iteration of the release loop in the finally clause:
\* release_key(mod) for the next mod of reversed(modifiers).
WMRelease ==
    /\ pc = "wm_release"
    /\ idx <= Len(call.mods.v)
    /\ LET mod == WMReleaseOrder(call.mods.v)[idx]
       IN IF ~ValidCode(mod)
          THEN Ends(Raise("ValueError")) /\ UNCHANGED <<trace, idx>>
          ELSE LET inputs == <<CreateKeyboardInput(mod.v, KEYEVENTF_KEYUP)>>
               IN \E result \in SendInputResults(inputs) :
                    /\ trace' = trace \o SendInputTrace(inputs, result)
                    /\ idx' = idx + 1
                    /\ UNCHANGED <<pc, ret>>
    /\ UNCHANGED <<call, success, pending, bodyOps, stub>>

\* The finally clause is over: the with statement ends, normally or with the
\* exception of the body.
WMExit ==
    /\ pc = "wm_release"
    /\ idx > Len(call.mods.v)
    /\ Ends(IF pending = "none" THEN Return(None) ELSE Raise(pending))
    /\ UNCHANGED <<call, trace, idx, success, pending, bodyOps, stub>>

(***************************************************************************)
(* The text helpers as calls                                               *)
(***************************************************************************)
ValidateTextCall(text) ==
    /\ pc = "idle"
    /\ call' = [op |-> "validate_text", text |-> text]
    /\ Ends(IF text.ty # "str" THEN Raise("ValueError")
            ELSE Return(ValidateText(text.v)))
    /\ UNCHANGED <<trace, idx, success, pending, bodyOps, stub>>

SplitTextBySupportCall(text) ==
    /\ pc = "idle"
    /\ call' = [op |-> "split_text_by_support", text |-> text]
    /\ Ends(IF text.ty # "str" THEN Raise("ValueError")
            ELSE Return(SplitTextBySupport(text.v)))
    /\ UNCHANGED <<trace, idx, success, pending, bodyOps, stub>>

\* _is_char_supported(char) and _type_character(char) on the same str, of
\* any length: the answer of the one, the decision of the other.
CharArgs == Strings(2) \cup {<<"U+00C9">>, <<"U+0130">>, <<"U+0060">>, <<"~">>}

ResolveCall(char) ==
    /\ pc = "idle"
    /\ call' = [op |-> "resolve", char |-> char]
    /\ Ends(Return([supported |-> IsCharSupported(char),
                    plan |-> TypeCharacter(char)]))
    /\ UNCHANGED <<trace, idx, success, pending, bodyOps, stub>>

\* The caller goes on to its next call.
NextCall ==
    /\ pc = "done"
    /\ pc' = "idle"
    /\ call' = [op |-> "none"]
    /\ trace' = <<>>
    /\ ret' = NoOutcome
    /\ idx' = 0
    /\ success' = TRUE
    /\ pending' = "none"
    /\ bodyOps' = 0
    /\ UNCHANGED stub

\* The body of a with block calls tap_key with these arguments.
BodyKeyArgs == {PyInt(VK_A), PyInt(256)}
BodyModLists == {<<>>, <<PyInt(VK_SHIFT)>>}

(***************************************************************************)
(* humanize_delay, calculate_typing_time, create_typing_profile,           *)
(* apply_typing_profile                                                    *)
(***************************************************************************)
HumanizeDelayCall(base_delay, variance) ==
    /\ pc = "idle"
    /\ call' = [op |-> "humanize_delay", base_delay |-> base_delay,
                variance |-> variance]
    /\ \E outcome \in HumanizeDelayOutcomes(base_delay, variance) :
         Ends(outcome)
    /\ UNCHANGED <<trace, idx, success, pending, bodyOps, stub>>

CalculateTypingTimeCall(text, delay) ==
    /\ pc = "idle"
    /\ call' = [op |-> "calculate_typing_time", text |-> text, delay |-> delay]
    /\ IF CalculateTypingTimeRaises(text, delay)
       THEN Ends(Raise("ValueError"))
       ELSE Ends(Return(CalculateTypingTime(TypeableChars(text.v), delay)))
    /\ UNCHANGED <<trace, idx, success, pending, bodyOps, stub>>

CreateTypingProfileCall(wpm) ==
    /\ pc = "idle"
    /\ call' = [op |-> "create_typing_profile", wpm |-> wpm]
    /\ IF CreateTypingProfileRaises(wpm)
       THEN Ends(Raise("ValueError"))
       ELSE Ends(Return(CreateTypingProfile(wpm)))
    /\ UNCHANGED <<trace, idx, success, pending, bodyOps, stub>>

ApplyTypingProfileCall(text, profile) ==
    /\ pc = "idle"
    /\ call' = [op |-> "apply_typing_profile", text |-> text,
                profile |-> profile]
    /\ IF ApplyTypingProfileRaises(text, profile)
       THEN Ends(Raise("ValueError"))
       ELSE \E outcome \in ApplyLoop(text.v, 1, profile.v, <<>>) :
              Ends(outcome)
    /\ UNCHANGED <<trace, idx, success, pending, bodyOps, stub>>

(***************************************************************************)
(* normalize_line_endings                                                  *)
(***************************************************************************)
NormalizeLineEndingsCall(text, target) ==
    /\ pc = "idle"
    /\ call' = [op |-> "normalize_line_endings", text |-> text,
                target |-> target]
    /\ IF NormalizeLineEndingsRaises(text, target)
       THEN Ends(Raise("ValueError"))
       ELSE Ends(Return(NormalizeLineEndings(text.v, target)))
    /\ UNCHANGED <<trace, idx, success, pending, bodyOps, stub>>

\* A call starts only from "idle": the guard comes first, so that the
\* argument sets are enumerated in that state alone.
Next ==
    \/ pc = "idle" /\ \E vk_code \in KeyArgs : PressKey(vk_code)
    \/ pc = "idle" /\ \E vk_code \in KeyArgs : ReleaseKey(vk_code)
    \/ pc = "idle" /\ \E vk_code \in KeyArgs, modifiers \in ModLists :
                         TapKey(vk_code, modifiers)
    \/ pc = "idle" /\ \E text \in TextArgs, delay \in DelayArgs :
                         TypeString(text, delay)
    \/ TypeStringIter
    \/ TypeStringReturn
    \/ pc = "idle" /\ \E modifiers \in ModListArgs : WithModifiers(modifiers)
    \/ WMPress
    \/ WMYield
    \/ pc = "wm_body" /\ \E vk_code \in BodyKeyArgs, modifiers \in BodyModLists :
                            WMBodyTap(vk_code, modifiers)
    \/ WMBodyRaise
    \/ WMBodyEnd
    \/ WMRelease
    \/ WMExit
    \/ pc = "idle" /\ \E text \in TextArgs : ValidateTextCall(text)
    \/ pc = "idle" /\ \E text \in TextArgs : SplitTextBySupportCall(text)
    \/ pc = "idle" /\ \E char \in CharArgs : ResolveCall(char)
    \/ pc = "idle" /\ \E base_delay \in BaseDelayArgs, variance \in VarianceArgs :
                         HumanizeDelayCall(base_delay, variance)
    \/ pc = "idle" /\ \E text \in TextArgs, delay \in DelayArgs :
                         CalculateTypingTimeCall(text, delay)
    \/ pc = "idle" /\ \E wpm \in WpmArgs : CreateTypingProfileCall(wpm)
    \/ pc = "idle" /\ \E text \in ProfileTextArgs, profile \in ProfileArgs :
                         ApplyTypingProfileCall(text, profile)
    \/ pc = "idle" /\ \E text \in LineTextArgs, target \in TargetArgs :
                         NormalizeLineEndingsCall(text, target)
    \/ NextCall

Spec == Init /\ [][Next]_vars

(***************************************************************************)
(* Properties                                                              *)
(***************************************************************************)
\* a key-down and a key-up event as SendInput receives them
Down(v) == [wVk |-> v, dwFlags |-> 0]
Up(v) == [wVk |-> v, dwFlags |-> 2]

IsSend(e) == e.kind = "send"
IsStep(e) == e.kind # "sleep"

\* the SendInput calls of a trace, and its per-character entries
Sends(tr) == SelectSeq(tr, IsSend)
Steps(tr) == SelectSeq(tr, IsStep)

\* all events of a trace in the order they were handed to SendInput
RECURSIVE Events(_)
Events(tr) ==
    IF tr = <<>> THEN <<>>
    ELSE (IF IsSend(Head(tr)) THEN Head(tr).inputs ELSE <<>>) \o Events(Tail(tr))

InRange(x) == x.ty = "int" /\ 0 <= x.v /\ x.v <= 255

\* type_string has accepted its arguments and not raised
Typing == call.op = "type_string" /\ pc \in {"type_loop", "done"}
          /\ ret.kind # "raise"

\* C1: type_string is best-effort.  Given a str and a delay >= 0 it does not
\* raise; after idx - 1 iterations it has left exactly one entry per
\* character of text[1..idx-1], in order (a SendInput call for a character
\* the resolver taps, the warning naming the character otherwise); and when
\* it returns, every character has its entry and the result is False exactly
\* when some entry is a warning or a failed SendInput call.
C1_BestEffort ==
    /\ (call.op = "type_string" /\ pc = "done" /\ call.text.ty = "str"
        /\ call.delay >= 0) => ret.kind = "return"
    /\ Typing =>
         LET text == call.text.v
             steps == Steps(trace)
         IN /\ Len(steps) = idx - 1
            /\ \A i \in 1..Len(steps) :
                 IF TypeCharacter(<<text[i]>>).kind = "unsupported"
                 THEN steps[i] = Warn(<<text[i]>>)
                 ELSE steps[i].kind = "send"
            /\ pc = "done" =>
                 /\ Len(steps) = Len(text)
                 /\ ret.val = ~(\E i \in 1..Len(steps) :
                                   \/ steps[i].kind = "warn"
                                   \/ steps[i].kind = "send" /\ ~steps[i].ok)

\* C1 witness: type_string has returned False for a text whose first
\* character failed (its SendInput call did) and whose last was typed.
C1_Witness ==
    /\ call.op = "type_string" /\ pc = "done" /\ ret.kind = "return"
    /\ Len(call.text.v) >= 2
    /\ ret.val = FALSE
    /\ Steps(trace)[1].kind = "send" /\ ~Steps(trace)[1].ok
    /\ Steps(trace)[Len(call.text.v)].kind = "send"
    /\ Steps(trace)[Len(call.text.v)].ok

\* the events of the characters text[1..n] that the resolver taps, character
\* after character: press, release, inside Shift press and release when the
\* resolver asks for Shift
RECURSIVE TypedEvents(_, _)
TypedEvents(text, n) ==
    IF n = 0 THEN <<>>
    ELSE LET plan == TypeCharacter(<<text[n]>>)
         IN TypedEvents(text, n - 1) \o
            (IF plan.kind # "tap" THEN <<>>
             ELSE IF plan.mods = <<>>
             THEN <<Down(plan.vk.v), Up(plan.vk.v)>>
             ELSE <<Down(VK_SHIFT), Down(plan.vk.v), Up(plan.vk.v), Up(VK_SHIFT)>>)

\* C2: the events type_string has injected after idx - 1 characters are the
\* events of character 1, then those of character 2, and so on: for each
\* character the press of its key immediately followed by the release of
\* the same key (between the press and the release of Shift when shifted).
C2_LeftToRight ==
    Typing => Events(trace) = TypedEvents(call.text.v, idx - 1)

\* C2 witness: type_string has returned after typing a shifted character and
\* then an unshifted one.
C2_Witness ==
    /\ call.op = "type_string" /\ pc = "done" /\ ret.kind = "return"
    /\ call.text.v = <<"A", "a">>
    /\ Len(Events(trace)) = 6

\* C3: tap_key(vk, modifiers) with codes in [0, 255] makes one SendInput
\* call with 2 + 2 * len(modifiers) events: the press of each modifier in
\* list order, the press of vk, the release of vk, the release of each
\* modifier in reverse list order (one press and one release per list
\* entry, also for a code listed twice).
C3_TapOrder ==
    (call.op = "tap_key" /\ pc = "done" /\ InRange(call.vk)
     /\ \A i \in 1..Len(call.mods) : InRange(call.mods[i])) =>
        LET n == Len(call.mods)
            inputs == trace[1].inputs
        IN /\ ret.kind = "return"
           /\ Len(trace) = 1 /\ trace[1].kind = "send"
           /\ Len(inputs) = 2 + 2 * n
           /\ \A i \in 1..n : inputs[i] = Down(call.mods[i].v)
           /\ inputs[n + 1] = Down(call.vk.v)
           /\ inputs[n + 2] = Up(call.vk.v)
           /\ \A j \in 1..n : inputs[n + 2 + j] = Up(call.mods[n + 1 - j].v)

\* C3 witness: tap_key has returned for a list of two different modifiers.
C3_Witness ==
    /\ call.op = "tap_key" /\ pc = "done" /\ ret.kind = "return"
    /\ call.vk = PyInt(VK_A)
    /\ call.mods = <<PyInt(VK_SHIFT), PyInt(VK_CONTROL)>>
    /\ Len(Events(trace)) = 6

\* with_modifiers has pressed a list of codes in [0, 255] and yielded
InBlock ==
    /\ call.op = "with_modifiers"
    /\ pc \in {"wm_body", "wm_release", "done"}
    /\ call.mods.ty = "list"
    /\ \A i \in 1..Len(call.mods.v) : InRange(call.mods.v[i])

\* SendInput calls made by the with body
BodySends == bodyOps - (IF pending = "ValueError" THEN 1 ELSE 0)

\* C4: with_modifiers(modifiers) has pressed each modifier, one press_key
\* call each, in list order when the with body starts; and when the with
\* statement is left, by the body completing or by an exception the body
\* raised, it has after the body released each modifier, one release_key
\* call each, in reverse list order, and the exception goes on to the caller.
C4_ScopedRelease ==
    InBlock =>
        LET mods == call.mods.v
            n == Len(mods)
        IN /\ Len(trace) >= n
           /\ \A i \in 1..n : /\ trace[i].kind = "send"
                              /\ trace[i].inputs = <<Down(mods[i].v)>>
           /\ pc = "wm_body" => Len(trace) = n + BodySends
           /\ pc = "done" =>
                /\ Len(trace) = 2 * n + BodySends
                /\ \A j \in 1..n :
                     /\ trace[n + BodySends + j].kind = "send"
                     /\ trace[n + BodySends + j].inputs = <<Up(mods[n + 1 - j].v)>>
                /\ ret = IF pending = "none" THEN Return(None) ELSE Raise(pending)

\* C4 witness: a with block over two different modifiers was left by an
\* exception of the body, after the body had injected events of its own.
C4_Witness ==
    /\ InBlock /\ pc = "done"
    /\ call.mods.v = <<PyInt(VK_SHIFT), PyInt(VK_CONTROL)>>
    /\ pending = "BodyError"
    /\ BodySends = 1
    /\ Len(trace) = 5

\* the call has rejected its arguments: a ValueError that is not one the
\* with body raised
Rejected ==
    /\ pc = "done"
    /\ call.op \in {"press_key", "release_key", "tap_key", "type_string",
                    "with_modifiers"}
    /\ ret = Raise("ValueError")
    /\ pending = "none"

\* C5: a call of press_key, release_key, tap_key, type_string or
\* with_modifiers that rejects its arguments with ValueError has handed no
\* event to SendInput.
C5_NoEventBeforeRejection == Rejected => Events(trace) = <<>>

\* C6: for a str of one character, _is_char_supported answers True exactly
\* when _type_character decides to tap a key.
C6_SupportAgrees ==
    (call.op = "resolve" /\ pc = "done" /\ Len(call.char) = 1) =>
        (ret.val.supported <=> ret.val.plan.kind = "tap")

Split == call.op = "split_text_by_support" /\ pc = "done" /\ ret.kind = "return"

\* the chunks of a list of (chunk, is_supported), concatenated in order
RECURSIVE Concat(_)
Concat(chunks) ==
    IF chunks = <<>> THEN <<>> ELSE Head(chunks)[1] \o Concat(Tail(chunks))

\* C7: the chunks split_text_by_support(t) returns, concatenated in order,
\* are t.
C7_ChunksRebuildText == Split => Concat(ret.val) = call.text.v

\* C7 witness: a text whose flag changes twice was split in three.
C7_Witness ==
    Split /\ call.text.v = <<"a", "U+4E16", "!">> /\ Len(ret.val) = 3

\* C8: no two adjacent spans of split_text_by_support(t) carry the same
\* flag.
C8_FlagsAlternate ==
    Split => \A i \in 1..(Len(ret.val) - 1) : ret.val[i][2] # ret.val[i + 1][2]

\* C8 witness: a text with a run of two unsupported characters was split in
\* two spans.
C8_Witness ==
    Split /\ call.text.v = <<"a", "U+4E16", "U+00C9">> /\ Len(ret.val) = 2

\* C9: every span of split_text_by_support(t) is a non-empty chunk whose
\* characters all have the support status the span is flagged with, and
\* the empty text gives no span.
C9_SpansAreRuns ==
    Split =>
        /\ \A i \in 1..Len(ret.val) :
             /\ ret.val[i][1] # <<>>
             /\ \A k \in 1..Len(ret.val[i][1]) :
                  IsCharSupported(<<ret.val[i][1][k]>>) = ret.val[i][2]
        /\ call.text.v = <<>> => ret.val = <<>>

\* C9 witness: a text that starts unsupported was split in an unsupported
\* span and a supported span of two characters.
C9_Witness ==
    /\ Split /\ call.text.v = <<"U+4E16", "a", "A">>
    /\ ret.val = << <<(<<"U+4E16">>), FALSE>>, <<(<<"a", "A">>), TRUE>> >>

Validated == call.op = "validate_text" /\ pc = "done" /\ ret.kind = "return"

\* the index of the first occurrence of the one-character str c in text
FirstIndex(text, c) ==
    CHOOSE i \in 1..Len(text) :
        <<text[i]>> = c /\ \A j \in 1..(i - 1) : <<text[j]>> # c

\* C10: validate_text(text) returns (is_valid, unsupported) where
\* unsupported holds exactly the characters of text _is_char_supported
\* rejects, each once, in the order of their first occurrence in text, and
\* is_valid is True exactly when unsupported is empty.
C10_ValidateText ==
    Validated =>
        LET text == call.text.v
            is_valid == ret.val[1]
            unsupported == ret.val[2]
        IN /\ {unsupported[i] : i \in 1..Len(unsupported)} =
                {<<text[i]>> : i \in {j \in 1..Len(text) :
                                        ~IsCharSupported(<<text[j]>>)}}
           /\ \A i, j \in 1..Len(unsupported) :
                i < j => /\ unsupported[i] # unsupported[j]
                         /\ FirstIndex(text, unsupported[i])
                              < FirstIndex(text, unsupported[j])
           /\ is_valid = (unsupported = <<>>)
           /\ (\A i \in 1..Len(text) : IsCharSupported(<<text[i]>>)) =>
                ret.val = <<TRUE, <<>>>>

\* C10 witness: a text with two unsupported characters, the first of them
\* twice, was validated.
C10_Witness ==
    /\ Validated /\ call.text.v = <<"U+00C9", "U+4E16", "U+00C9">>
    /\ ret.val = <<FALSE, <<(<<"U+00C9">>), (<<"U+4E16">>)>> >>


\* the entry character i of text leaves in the trace: its SendInput call
\* (whatever it returned) or its warning
IsEntryOf(e, char) ==
    LET plan == TypeCharacter(char)
    IN IF plan.kind = "tap"
       THEN e.kind = "send" /\ e.inputs = TapKeyInputs(plan.vk, plan.mods)
       ELSE e = Warn(char)

\* C11: type_string with delay > 0 sleeps exactly once per character, for
\* `delay`, right after that character's entry and before the next
\* character's: after idx - 1 characters the trace is entry 1, sleep,
\* entry 2, sleep, ..., and at the return it holds len(text) sleeps.  With
\* delay = 0 the trace holds no sleep at all.
C11_SleepPerCharacter ==
    Typing =>
      LET text == call.text.v
      IN /\ pc = "done" => idx - 1 = Len(text)
         /\ IF call.delay > 0
            THEN /\ Len(trace) = 2 * (idx - 1)
                 /\ \A i \in 1..(idx - 1) :
                      /\ IsEntryOf(trace[2 * i - 1], <<text[i]>>)
                      /\ trace[2 * i] = Sleep(call.delay)
            ELSE /\ Len(trace) = idx - 1
                 /\ \A i \in 1..(idx - 1) : IsEntryOf(trace[i], <<text[i]>>)

\* C11 witness: type_string has returned after three characters, one of them
\* unsupported, with delay > 0 and three sleeps.
C11_Witness ==
    /\ call.op = "type_string" /\ pc = "done" /\ ret.kind = "return"
    /\ call.delay > 0
    /\ Len(call.text.v) = 3
    /\ \E i \in 1..3 : trace[2 * i - 1].kind = "warn"
    /\ Len(SelectSeq(trace, LAMBDA e : e.kind = "sleep")) = 3


\* every character of text is one the resolver taps
AllTyped(text) ==
    \A i \in 1..Len(text) : TypeCharacter(<<text[i]>>).kind = "tap"

\* C12: when SendInput is the mock that returns 1, tap_key(vk) and
\* tap_key(vk, [modifier]) with codes in [0, 255] return True after exactly
\* one SendInput call, and type_string on a text of characters the resolver
\* taps returns True after exactly one SendInput call per character.
C12_StubSucceeds ==
    (stub = "mock" /\ pc = "done") =>
      /\ (/\ call.op = "tap_key"
          /\ ~TapKeyRaises(call.vk, call.mods)
          /\ Len(call.mods) <= 1)
           => /\ ret = Return(TRUE)
              /\ Len(Sends(trace)) = 1
      /\ (/\ call.op = "type_string"
          /\ call.text.ty = "str"
          /\ call.delay >= 0
          /\ AllTyped(call.text.v))
           => /\ ret = Return(TRUE)
              /\ Len(Sends(trace)) = Len(call.text.v)


\* a call of `op` has ended
Done(op) == pc = "done" /\ call.op = op

\* C13: for base >= 0 and variance >= 0, humanize_delay(base, variance)
\* returns a value in [max(0, base - variance), base + variance] whatever
\* the draw; with variance = 0 the value is base; it is never negative.
C13_HumanizeRange ==
    (/\ Done("humanize_delay")
     /\ RLe(Zero, call.base_delay)
     /\ RLe(Zero, call.variance))
      => /\ ret.kind = "return"
         /\ RLe(RMax(Zero, RSub(call.base_delay, call.variance)), ret.val)
         /\ RLe(ret.val, RAdd(call.base_delay, call.variance))
         /\ call.variance = Zero => ret.val = call.base_delay
         /\ RLe(Zero, ret.val)

\* C13 witness: humanize_delay has returned 0, the draw having taken the sum
\* below 0 (variance above base).
C13_Witness ==
    /\ Done("humanize_delay")
    /\ RLt(Zero, call.base_delay)
    /\ RLt(call.base_delay, call.variance)
    /\ ret = Return(Zero)

\* humanize_delay and create_typing_profile raise ValueError exactly on
\* their out-of-domain arguments and return otherwise
NumericRaises ==
    /\ Done("humanize_delay") =>
         IF RLt(call.base_delay, Zero) \/ RLt(call.variance, Zero)
         THEN ret = Raise("ValueError") ELSE ret.kind = "return"
    /\ Done("create_typing_profile") =>
         IF call.wpm <= 0
         THEN ret = Raise("ValueError") ELSE ret.kind = "return"

\* C14 as stated: humanize_delay raises ValueError iff base < 0 or
\* variance < 0, create_typing_profile iff wpm <= 0, calculate_typing_time
\* iff delay < 0; in every other case each returns a value.
C14_RaiseIffDelayNegative ==
    /\ NumericRaises
    /\ Done("calculate_typing_time") =>
         IF call.delay < 0
         THEN ret = Raise("ValueError") ELSE ret.kind = "return"

\* C14, amended: as stated, except that calculate_typing_time raises
\* ValueError iff text is not a str or delay < 0.
C14_RaiseIff ==
    /\ NumericRaises
    /\ Done("calculate_typing_time") =>
         IF call.text.ty # "str" \/ call.delay < 0
         THEN ret = Raise("ValueError") ELSE ret.kind = "return"

\* C14 witness: calculate_typing_time has raised for a text that is not a
\* str, the delay being in its domain.
C14_Witness ==
    /\ Done("calculate_typing_time")
    /\ call.text = PyInt(123)
    /\ call.delay >= 0
    /\ ret = Raise("ValueError")

Applied == Done("apply_typing_profile") /\ ret.kind = "return"

\* a profile of the TypingProfile data model: base delay > 0, variance >= 0,
\* pause chance in [0, 1], pause duration >= 0
DataModel(profile) ==
    /\ RLt(Zero, profile.base_delay)
    /\ RLe(Zero, profile.variance)
    /\ RLe(Zero, profile.pause_chance) /\ RLe(profile.pause_chance, One)
    /\ RLe(Zero, profile.pause_duration)

\* C16: apply_typing_profile(text, profile), for a str and a dict with the
\* four keys whose base delay and variance are not negative, returns a list
\* with one delay per supported character of text and none for the others;
\* each delay is profile['pause_duration'] or a value of
\* humanize_delay(profile['base_delay'], profile['variance']), that is one
\* in [max(0, base - variance), base + variance].
C16_DelayPerSupportedChar ==
    /\ (/\ Done("apply_typing_profile")
        /\ ~ApplyTypingProfileRaises(call.text, call.profile)
        /\ RLe(Zero, call.profile.v.base_delay)
        /\ RLe(Zero, call.profile.v.variance)) => ret.kind = "return"
    /\ Applied =>
         LET text == call.text.v
             profile == call.profile.v
             delays == ret.val
             low == RMax(Zero, RSub(profile.base_delay, profile.variance))
             high == RAdd(profile.base_delay, profile.variance)
         IN /\ Len(delays) =
                 Cardinality({i \in 1..Len(text) : IsCharSupported(<<text[i]>>)})
            /\ \A k \in 1..Len(delays) :
                 \/ delays[k] = profile.pause_duration
                 \/ RLe(low, delays[k]) /\ RLe(delays[k], high)

\* C16 witness: apply_typing_profile has returned for a text of an
\* unsupported and a supported character: one delay, a humanized one.
C16_Witness ==
    /\ Applied
    /\ call.text.v = <<"U+4E16", "A">>
    /\ Len(ret.val) = 1
    /\ ret.val[1] # call.profile.v.pause_duration

\* C17 as stated: every delay apply_typing_profile returns for a profile of
\* the data model is > 0.
C17_DelaysPositive ==
    (Applied /\ DataModel(call.profile.v)) =>
      \A k \in 1..Len(ret.val) : RLt(Zero, ret.val[k])

\* C17, amended: every delay apply_typing_profile returns for a profile of
\* the data model is >= 0, and > 0 when the profile's variance is below its
\* base delay and its pause duration is > 0.
C17_DelaysNotNegative ==
    (Applied /\ DataModel(call.profile.v)) =>
      LET profile == call.profile.v
      IN /\ \A k \in 1..Len(ret.val) : RLe(Zero, ret.val[k])
         /\ (/\ RLt(profile.variance, profile.base_delay)
             /\ RLt(Zero, profile.pause_duration))
              => \A k \in 1..Len(ret.val) : RLt(Zero, ret.val[k])

\* C17 witness: apply_typing_profile has returned a delay of 0 next to a
\* delay > 0, for a profile of the data model whose variance is above its
\* base delay.
C17_Witness ==
    /\ Applied
    /\ DataModel(call.profile.v)
    /\ RLt(call.profile.v.base_delay, call.profile.v.variance)
    /\ Len(ret.val) = 2
    /\ ret.val[1] = Zero
    /\ RLt(Zero, ret.val[2])

C19_KeyCodeValidation ==
    (pc = "done" /\ call.op \in {"press_key", "release_key", "tap_key"}) =>
      LET mods == IF call.op = "tap_key" THEN call.mods ELSE <<>>
          events == CASE call.op = "press_key" -> <<Down(call.vk.v)>>
                      [] call.op = "release_key" -> <<Up(call.vk.v)>>
                      [] OTHER ->
                           [i \in 1..Len(mods) |-> Down(mods[i].v)]
                           \o <<Down(call.vk.v), Up(call.vk.v)>>
                           \o [i \in 1..Len(mods) |->
                                   Up(mods[Len(mods) + 1 - i].v)]
      IN IF ~InRange(call.vk) \/ \E i \in 1..Len(mods) : ~InRange(mods[i])
         THEN ret = Raise("ValueError") /\ trace = <<>>
         ELSE /\ ret.kind = "return"
              /\ trace = <<Send(events, ret.val)>>

\* C19 witness: tap_key has raised for its second modifier, 256 or -1, the
\* key code and the first modifier being in [0, 255].
C19_Witness ==
    /\ Done("tap_key")
    /\ InRange(call.vk)
    /\ Len(call.mods) = 2
    /\ InRange(call.mods[1])
    /\ ~InRange(call.mods[2])
    /\ ret = Raise("ValueError")

\* type_string("AB") has returned and every SendInput call it made
\* succeeded
TypedAB ==
    /\ Done("type_string")
    /\ call.text = PyStr(<<"A", "B">>)
    /\ ret.kind = "return"
    /\ \A i \in 1..Len(trace) : trace[i].kind = "send" => trace[i].ok

\* C20 as stated: type_string("AB") with an injector that always succeeds
\* returns True and injects exactly 4 events: press A, release A, press B,
\* release B.
C20_FourEvents ==
    TypedAB =>
      /\ ret.val = TRUE
      /\ Events(trace) = <<Down(VK_A), Up(VK_A), Down(VK_B), Up(VK_B)>>

\* C20, amended: type_string("AB") with an injector that always succeeds
\* returns True and injects exactly 8 events: press Shift, press A,
\* release A, release Shift, press Shift, press B, release B, release Shift.
C20_EightEvents ==
    TypedAB =>
      /\ ret.val = TRUE
      /\ Events(trace) = <<Down(VK_SHIFT), Down(VK_A), Up(VK_A), Up(VK_SHIFT),
                           Down(VK_SHIFT), Down(VK_B), Up(VK_B), Up(VK_SHIFT)>>

\* C20 witness: type_string("AB") has returned True, both its SendInput
\* calls having succeeded.
C20_Witness ==
    /\ TypedAB
    /\ Len(Sends(trace)) = 2
    /\ ret = Return(TRUE)


\* the characters of text[1..n] the resolver taps
Resolvable(text, n) ==
    {i \in 1..n : TypeCharacter(<<text[i]>>).kind = "tap"}

\* C21: type_string never retries.  After idx - 1 characters it has made
\* exactly one SendInput call per character the resolver taps, that
\* character's, and none for an unsupported character, whichever calls
\* failed; and a failed call leaves the loop running: at the return every
\* resolvable character of the text has its one call, and the result is
\* False when one of them failed.
C21_NoRetry ==
    Typing =>
      LET text == call.text.v
          sends == Sends(trace)
      IN /\ Len(sends) = Cardinality(Resolvable(text, idx - 1))
         /\ \A k \in 1..Len(sends) :
              \E i \in Resolvable(text, idx - 1) :
                /\ Cardinality(Resolvable(text, i)) = k
                /\ IsEntryOf(sends[k], <<text[i]>>)
         /\ pc = "done" =>
              /\ idx - 1 = Len(text)
              /\ (\E k \in 1..Len(sends) : ~sends[k].ok) => ret = Return(FALSE)

\* C21 witness: type_string has returned False after three characters: the
\* first call failed, the second character was unsupported, the third was
\* typed by one call that succeeded.
C21_Witness ==
    /\ Done("type_string") /\ ret = Return(FALSE)
    /\ Len(call.text.v) = 3
    /\ TypeCharacter(<<call.text.v[2]>>).kind = "unsupported"
    /\ Len(Sends(trace)) = 2
    /\ ~Sends(trace)[1].ok
    /\ Sends(trace)[2].ok


\* the resolver and the support check have answered for the str call.char
Resolved == Done("resolve")

\* the ordered rules for one character: a direct entry of the table, tapped
\* with no modifier; else an uppercase letter whose lowercase form has a
\* direct entry, tapped as that entry with Shift; else a requires-shift
\* character whose base character has a direct entry, tapped as that entry
\* with Shift; else unsupported
OrderedRules(char) ==
    IF char[1] \in DOMAIN CHAR_TO_VK
    THEN [kind |-> "tap", vk |-> PyInt(CHAR_TO_VK[char[1]]), mods |-> <<>>]
    ELSE IF IsUpper(char) /\ Len(Lower(char)) = 1
            /\ Lower(char)[1] \in DOMAIN CHAR_TO_VK
    THEN [kind |-> "tap", vk |-> PyInt(CHAR_TO_VK[Lower(char)[1]]),
          mods |-> <<PyInt(VK_SHIFT)>>]
    ELSE IF char[1] \in SHIFT_CHARS /\ char[1] \in DOMAIN SHIFT_CHAR_MAP
            /\ SHIFT_CHAR_MAP[char[1]] \in DOMAIN CHAR_TO_VK
    THEN [kind |-> "tap", vk |-> PyInt(CHAR_TO_VK[SHIFT_CHAR_MAP[char[1]]]),
          mods |-> <<PyInt(VK_SHIFT)>>]
    ELSE [kind |-> "unsupported", vk |-> None, mods |-> <<>>]

\* C22: for every str of one character, what _type_character decides is
\* what the ordered rules give: the direct entry with no modifier, else the
\* lowercase form's entry with Shift for an uppercase letter, else the base
\* character's entry with Shift for a requires-shift character, else
\* unsupported.
C22_ResolverFollowsRules ==
    (Resolved /\ Len(call.char) = 1) => ret.val.plan = OrderedRules(call.char)

\* C23: a str that is not exactly one character is rejected with ValueError
\* by _type_character and by _is_char_supported alike; neither answers
\* that it is unsupported.
C23_NotOneCharRejected ==
    (Resolved /\ Len(call.char) # 1) =>
      /\ ret.val.plan.kind = "raise"
      /\ ret.val.supported # FALSE


\* text with each line ending, read from the left ('\r\n' as one, else a
\* lone '\r' or a lone '\n'), replaced by target, and every other character
\* kept
RECURSIVE LineEndingsReplaced(_, _)
LineEndingsReplaced(text, target) ==
    IF text = <<>> THEN <<>>
    ELSE IF Len(text) >= 2 /\ text[1] = CR /\ text[2] = LF
    THEN target \o LineEndingsReplaced(SubSeq(text, 3, Len(text)), target)
    ELSE IF text[1] \in {CR, LF}
    THEN target \o LineEndingsReplaced(Tail(text), target)
    ELSE <<text[1]>> \o LineEndingsReplaced(Tail(text), target)

\* C24: for a str and a target among '\n', '\r\n' and '\r',
\* normalize_line_endings(text, target) returns text with each line ending
\* ('\r\n' counted as one, else a lone '\r' or a lone '\n') replaced by one
\* target and every other character unchanged and in order.
C24_LineEndings ==
    (/\ Done("normalize_line_endings")
     /\ call.text.ty = "str"
     /\ call.target \in {<<LF>>, <<CR, LF>>, <<CR>>}) =>
       ret = Return(LineEndingsReplaced(call.text.v, call.target))

\* C24 witness: normalize_line_endings has turned a lone '\r' followed by
\* '\r\n' into two '\r\n'.
C24_Witness ==
    /\ Done("normalize_line_endings")
    /\ call.text = PyStr(<<CR, CR, LF>>)
    /\ call.target = <<CR, LF>>
    /\ ret = Return(<<CR, LF, CR, LF>>)


\* every SendInput call of the trace succeeded
AllOk == \A i \in 1..Len(trace) : trace[i].kind = "send" => trace[i].ok

\* key v is held after the events ev: it was pressed and no release of it
\* came after its last press
Held(v, ev) ==
    \E i \in 1..Len(ev) :
      /\ ev[i] = Down(v)
      /\ \A j \in (i + 1)..Len(ev) : ev[j] # Up(v)

\* C25: throughout the body of a with_modifiers(modifiers) block, with
\* every SendInput call succeeding, each modifier of the list is held,
\* whatever calls of the library the body has made.
C25_ModifiersHeld ==
    (InBlock /\ pc = "wm_body" /\ AllOk) =>
      \A i \in 1..Len(call.mods.v) : Held(call.mods.v[i].v, Events(trace))

\* the number of events e in ev
Count(e, ev) == Cardinality({i \in 1..Len(ev) : ev[i] = e})

\* C26: on every way out of with_modifiers(modifiers), the rejection of a
\* list whose invalid code follows valid ones included, the events handed
\* to SendInput hold as many releases as presses of each key code.
C26_PressesReleased ==
    (Done("with_modifiers") /\ call.mods.ty = "list") =>
      \A v \in 0..255 :
        Count(Down(v), Events(trace)) = Count(Up(v), Events(trace))


\* the key codes of the events ev
Keys(ev) == {ev[i].wVk : i \in 1..Len(ev)}

\* C27: when tap_key(vk, modifiers) or type_string(text, delay) has
\* returned and every SendInput call succeeded, no key is held: the events
\* hold as many releases as presses of each key code, no prefix of them
\* holds more releases than presses of a key code, and no press is left
\* without a release after it.
C27_NoKeyLeftHeld ==
    (/\ pc = "done"
     /\ call.op \in {"tap_key", "type_string"}
     /\ ret.kind = "return"
     /\ AllOk) =>
       LET ev == Events(trace)
       IN \A v \in Keys(ev) :
            /\ ~Held(v, ev)
            /\ Count(Down(v), ev) = Count(Up(v), ev)
            /\ \A n \in 0..Len(ev) :
                 Count(Up(v), SubSeq(ev, 1, n)) <= Count(Down(v), SubSeq(ev, 1, n))

\* C27 witness: type_string has returned True for three characters, a
\* shifted one among them, every SendInput call having succeeded.
C27_Witness ==
    /\ Done("type_string") /\ ret = Return(TRUE)
    /\ AllOk
    /\ Len(call.text.v) = 3
    /\ Count(Down(VK_SHIFT), Events(trace)) >= 1
    /\ Len(Events(trace)) >= 8


\* with_modifiers was called with a list of codes in [0, 255]
ValidBlock ==
    /\ call.op = "with_modifiers"
    /\ call.mods.ty = "list"
    /\ \A i \in 1..Len(call.mods.v) : InRange(call.mods.v[i])

\* the calls of the trace that hand SendInput the single event e
Calls(e) == {i \in 1..Len(trace) : trace[i].kind = "send" /\ trace[i].inputs = <<e>>}

\* C28: with_modifiers does not react to what SendInput answers.  For a
\* list of codes in [0, 255], whichever press or release calls failed: the
\* body starts after exactly len(modifiers) press calls; the call never
\* ends before its body started, and ends only by the body's end or the
\* body's own exception; and when it has ended, exactly len(modifiers)
\* release calls have followed the body.
C28_IgnoresOutcomes ==
    ValidBlock =>
      LET mods == call.mods.v
          n == Len(mods)
      IN /\ pc = "wm_press" => /\ Len(trace) = idx - 1
                                /\ ret = NoOutcome
         /\ (pc = "wm_body" /\ bodyOps = 0) =>
              /\ Len(trace) = n
              /\ \A i \in 1..n : i \in Calls(Down(mods[i].v))
         /\ pc = "wm_release" => Len(trace) = n + BodySends + idx - 1
         /\ pc = "done" =>
              /\ ret = IF pending = "none" THEN Return(None) ELSE Raise(pending)
              /\ pending \in {"none", "ValueError", "BodyError"}
              /\ pending = "ValueError" => bodyOps > 0
              /\ Len(trace) = 2 * n + BodySends
              /\ \A j \in 1..n :
                   (n + BodySends + j) \in Calls(Up(mods[n + 1 - j].v))

\* C28 witness: a with block over two modifiers has ended normally although
\* both press calls and both release calls failed.
C28_Witness ==
    /\ ValidBlock /\ pc = "done"
    /\ Len(call.mods.v) = 2
    /\ ret = Return(None)
    /\ Len(trace) >= 4
    /\ \A i \in 1..Len(trace) : ~trace[i].ok


\* C29: type_string(text, delay) does not raise for a str and a delay >= 0,
\* at any point of its loop: every code of CHAR_TO_VK is an int in
\* [1, 255], so that each character the resolver taps passes the truth
\* test on its code and the range checks of tap_key, with Shift or
\* without; and a text with an unsupported character is answered by False.
C29_TypeStringNeverRaises ==
    /\ \A c \in DOMAIN CHAR_TO_VK : CHAR_TO_VK[c] \in 1..255
    /\ (/\ call.op = "type_string"
        /\ call.text.ty = "str"
        /\ call.delay >= 0) =>
          LET text == call.text.v
          IN /\ ret.kind # "raise"
             /\ pc \in {"type_loop", "done"}
             /\ \A i \in 1..Len(text) :
                  LET plan == TypeCharacter(<<text[i]>>)
                  IN /\ plan.kind \in {"tap", "unsupported"}
                     /\ plan.kind = "tap" =>
                          /\ Truthy(plan.vk)
                          /\ ~TapKeyRaises(plan.vk, plan.mods)
             /\ (pc = "done" /\ ~AllTyped(text)) => ret = Return(FALSE)

\* C29 witness: type_string has returned False for a text of three
\* unsupported characters, without a SendInput call.
C29_Witness ==
    /\ Done("type_string")
    /\ call.text.ty = "str"
    /\ Len(call.text.v) = 3
    /\ \A i \in 1..3 : TypeCharacter(<<call.text.v[i]>>).kind = "unsupported"
    /\ ret = Return(FALSE)
    /\ Sends(trace) = <<>>

\* validate_text's answer `valid` and split_text_by_support's answer
\* `chunks` agree: the first is all-supported exactly when no chunk is
\* flagged unsupported, and its list holds the characters of the
\* unsupported chunks, as a set
Agree(valid, chunks) ==
    /\ valid[1] <=> (\A k \in 1..Len(chunks) : chunks[k][2])
    /\ {valid[2][i] : i \in 1..Len(valid[2])} =
         UNION {{<<chunks[k][1][j]>> : j \in 1..Len(chunks[k][1])} :
                   k \in {m \in 1..Len(chunks) : ~chunks[m][2]}}

\* C30: validate_text and split_text_by_support agree on every str:
\* what either has returned agrees with what the other returns for the
\* same text.
C30_ValidateAgreesWithSplit ==
    /\ Validated => Agree(ret.val, SplitTextBySupport(call.text.v))
    /\ Split => Agree(ValidateText(call.text.v), ret.val)

\* C30 witness: validate_text has listed two different unsupported
\* characters of a text that split_text_by_support cuts in three chunks.
C30_Witness ==
    /\ Validated
    /\ call.text.v = <<"U+4E16", "a", "U+00C9">>
    /\ ret.val = <<FALSE, << <<"U+4E16">>, <<"U+00C9">> >> >>
    /\ Len(SplitTextBySupport(call.text.v)) = 3

====
